---- MODULE Spec2Model ----
(***************************************************************************)
(* Model of valorant_stats.py: main() is one linear run                    *)
(*   Configuration -> Identity -> AccountLookup -> ShardLookup ->          *)
(*   MatchList -> MatchDetail* -> Report.                                  *)
(* Every blocking step of main() is one action; the environment (the       *)
(* process environment, the console line, the four HTTP responses) is      *)
(* drawn with \E from bounded sets.  JSON objects are records whose DOMAIN *)
(* is the set of fields present, so a missing field is a missing key.      *)
(***************************************************************************)
EXTENDS Integers, Sequences, FiniteSets, TLC

\* ------------------------------------------------------------------ bounds
\* Longest console line that is typed (characters).
MaxIdLen == 2
\* Longest match history the upstream returns.
MaxHist == 6
\* Largest kills + deaths + assists of one participant stat line.
MaxStatSum == 1

\* ------------------------------------------------------- program constants
\* data.get("history", [])[:5]
MatchCap == 5

Americas == "americas.api.riotgames.com"

\* region_map
RegionMap ==
    [na    |-> "americas.api.riotgames.com",
     latam |-> "americas.api.riotgames.com",
     br    |-> "americas.api.riotgames.com",
     eu    |-> "eu.api.riotgames.com",
     ap    |-> "asia.api.riotgames.com",
     kr    |-> "kr.api.riotgames.com"]

\* Python's None for the string-valued locals (no input of the model is this
\* string).
None == "None"

\* ------------------------------------------------------------ pure helpers
\* dict.get(k, default)
Get(d, k, default) == IF k \in DOMAIN d THEN d[k] ELSE default

\* Python truthiness of an optional string: None and "" are falsy.
Truthy(v) == v # None /\ v # ""

Max(a, b) == IF a >= b THEN a ELSE b

\* str.strip(): drop leading and trailing whitespace.
RECURSIVE Strip(_)
Strip(s) ==
    IF s = <<>> THEN s
    ELSE IF Head(s) = " " THEN Strip(Tail(s))
    ELSE IF s[Len(s)] = " " THEN Strip(SubSeq(s, 1, Len(s) - 1))
    ELSE s

\* str.split(sep) with no maxsplit: one part more than there are separators.
RECURSIVE Split(_, _)
Split(s, sep) ==
    IF \A i \in 1..Len(s) : s[i] # sep THEN <<s>>
    ELSE LET i == CHOOSE k \in 1..Len(s) :
                      s[k] = sep /\ \A j \in 1..(k - 1) : s[j] # sep
         IN  <<SubSeq(s, 1, i - 1)>> \o Split(SubSeq(s, i + 1, Len(s)), sep)

\* Mutant of SplitRiotId: riot_id.split('#', 1), which tolerates further
\* separators in the tag.
SplitRiotIdOnce(s) ==
    IF \A i \in 1..Len(s) : s[i] # "#" THEN <<s>>
    ELSE LET i == CHOOSE k \in 1..Len(s) :
                      s[k] = "#" /\ \A j \in 1..(k - 1) : s[j] # "#"
         IN  <<SubSeq(s, 1, i - 1), SubSeq(s, i + 1, Len(s))>>

\* riot_id.split('#')
SplitRiotId(s) == Split(s, "#")

\* requests.get(...); raise_for_status(); .json() all went through.
Fetched(r) == r.kind = "ok"

\* ------------------------------------------------------------------- state
VARIABLES
    pc,             \* position of main(): the step that runs next
    api_key,        \* os.getenv("RIOT_API_KEY")
    riot_id,        \* the stripped console line, a sequence of characters
    game_name,
    tag_line,
    puuid,
    actual_region,
    val_domain,
    matches,        \* the capped match list
    idx,            \* entries of matches the for loop has consumed
    total_kills,
    total_deaths,
    total_assists,
    total_wins,
    kda,            \* the float kda: the ratio num/den, the sign of its error
    win_rate,       \* the float win_rate, likewise
    calls,          \* every requests.get issued, in order
    out,            \* every line printed to stdout, in order
    last,           \* history: what the environment handed to the last step
    ref             \* history: what the fetched match bodies contain

vars == <<pc, api_key, riot_id, game_name, tag_line, puuid, actual_region,
          val_domain, matches, idx, total_kills, total_deaths, total_assists,
          total_wins, kda, win_rate, calls, out, last, ref>>

totals == <<total_kills, total_deaths, total_assists, total_wins>>

Init ==
    /\ pc = "config"
    /\ api_key = None
    /\ riot_id = <<>>
    /\ game_name = <<>>
    /\ tag_line = <<>>
    /\ puuid = None
    /\ actual_region = None
    /\ val_domain = None
    /\ matches = <<>>
    /\ idx = 0
    /\ total_kills = 0
    /\ total_deaths = 0
    /\ total_assists = 0
    /\ total_wins = 0
    /\ kda = [num |-> 0, den |-> 1, err |-> 0]
    /\ win_rate = [num |-> 0, den |-> 1, err |-> 0]
    /\ calls = <<>>
    /\ out = <<>>
    /\ last = [step |-> "start", kind |-> "start"]
    /\ ref = [found |-> 0, kills |-> 0, deaths |-> 0, assists |-> 0, wins |-> 0]

\* print(...), one call per element of ms
Stdout(ms) == out' = out \o ms

\* requests.get(url, headers=headers)
HttpGet(c) == calls' = Append(calls, c @@ [token |-> api_key])

\* ------------------------------------------------------------ Configuration
\* api_key = os.getenv("RIOT_API_KEY"); a missing or empty key ends the run.
Configuration(envs) ==
    /\ pc = "config"
    /\ \E env \in envs :
         LET key == Get(env, "RIOT_API_KEY", None) IN
         /\ api_key' = key
         /\ IF ~Truthy(key)
            THEN /\ Stdout(<<[msg |-> "Missing RIOT_API_KEY in .env file."]>>)
                 /\ pc' = "done"
                 /\ last' = [step |-> "config", kind |-> "no_key"]
            ELSE /\ out' = out
                 /\ pc' = "identity"
                 /\ last' = [step |-> "config", kind |-> "ok"]
    /\ UNCHANGED <<riot_id, game_name, tag_line, puuid, actual_region,
                   val_domain, matches, idx, totals, kda, win_rate, calls, ref>>

\* ----------------------------------------------------------------- Identity
\* riot_id = input(...).strip(); game_name, tag_line = riot_id.split('#')
Identity(lines) ==
    /\ pc = "identity"
    /\ \E line \in lines :
         LET rid   == Strip(line)
             parts == SplitRiotId(rid)
         IN
         /\ riot_id' = rid
         /\ IF Len(parts) = 2
            THEN /\ game_name' = parts[1]
                 /\ tag_line' = parts[2]
                 /\ out' = out
                 /\ pc' = "account"
                 /\ last' = [step |-> "identity", kind |-> "ok"]
            ELSE /\ UNCHANGED <<game_name, tag_line>>
                 /\ Stdout(<<[msg |-> "Invalid Riot ID format. Must be GameName#TagLine."]>>)
                 /\ pc' = "done"
                 /\ last' = [step |-> "identity", kind |-> "bad_format"]
    /\ UNCHANGED <<api_key, puuid, actual_region, val_domain, matches, idx,
                   totals, kda, win_rate, calls, ref>>

\* What the environment handed to a lookup whose body must carry `field`:
\* the failure of the exchange, a body without the field, or "ok".
LookupKind(r, field) ==
    IF r.kind # "ok" THEN r.kind
    ELSE IF field \in DOMAIN r.body THEN "ok" ELSE "no_field"

\* ------------------------------------------------------------ AccountLookup
\* try: r = requests.get(account_url); r.raise_for_status();
\*      puuid = r.json()["puuid"]; print("ACCOUNT DATA:", ...)
\* except Exception: print("Error fetching PUUID"); return
AccountOk(r) == Fetched(r) /\ "puuid" \in DOMAIN r.body

AccountLookup(resps) ==
    /\ pc = "account"
    /\ \E r \in resps :
         /\ HttpGet([ep |-> "account", host |-> Americas,
                     name |-> game_name, tag |-> tag_line])
         /\ IF AccountOk(r)
            THEN /\ puuid' = r.body.puuid
                 /\ Stdout(<<[msg |-> "ACCOUNT DATA:", data |-> r.body]>>)
                 /\ pc' = "shard"
            ELSE /\ puuid' = puuid
                 /\ Stdout(<<[msg |-> "Error fetching PUUID"]>>)
                 /\ pc' = "done"
         /\ last' = [step |-> "account", kind |-> LookupKind(r, "puuid")]
    /\ UNCHANGED <<api_key, riot_id, game_name, tag_line, actual_region,
                   val_domain, matches, idx, totals, kda, win_rate, ref>>

\* -------------------------------------------------------------- ShardLookup
\* val_domain = region_map.get(actual_region, "americas.api.riotgames.com")
ValDomain(region) == Get(RegionMap, region, Americas)

\* if val_domain != "americas.api.riotgames.com" and actual_region not in region_map
WarnsUnknownShard(region) ==
    ValDomain(region) # Americas /\ region \notin DOMAIN RegionMap

ShardOk(r) == Fetched(r) /\ "activeShard" \in DOMAIN r.body

\* try: resp = requests.get(active_shard_url); ...["activeShard"]
\* except Exception: print("Error fetching active shard"); return
\* then the region map and its warning.
ShardLookup(resps) ==
    /\ pc = "shard"
    /\ \E r \in resps :
         /\ HttpGet([ep |-> "active-shard", host |-> Americas, puuid |-> puuid])
         /\ IF ShardOk(r)
            THEN LET region == r.body.activeShard IN
                 /\ actual_region' = region
                 /\ val_domain' = ValDomain(region)
                 /\ Stdout(<<[msg |-> "ACTIVE SHARD:", shard |-> region]>> \o
                          (IF WarnsUnknownShard(region)
                           THEN <<[msg |-> "Unknown activeShard, defaulting to americas.",
                                   shard |-> region]>>
                           ELSE <<>>))
                 /\ pc' = "matchlist"
            ELSE /\ UNCHANGED <<actual_region, val_domain>>
                 /\ Stdout(<<[msg |-> "Error fetching active shard"]>>)
                 /\ pc' = "done"
         /\ last' = [step |-> "shard", kind |-> LookupKind(r, "activeShard")]
    /\ UNCHANGED <<api_key, riot_id, game_name, tag_line, puuid, matches, idx,
                   totals, kda, win_rate, ref>>

\* ---------------------------------------------------------------- MatchList
\* Mutant of Capped: the whole history.
Uncapped(history) == history

\* data.get("history", [])[:5]
Capped(history) ==
    SubSeq(history, 1, IF Len(history) < MatchCap THEN Len(history) ELSE MatchCap)

\* Mutant of NoMatches: the empty list is not checked.
NeverNoMatches(m) == FALSE

\* if not matches
NoMatches(m) == m = <<>>

MatchListKind(r) ==
    IF r.kind # "ok" THEN r.kind
    ELSE IF "history" \notin DOMAIN r.body THEN "no_field"
    ELSE IF r.body.history = <<>> THEN "empty" ELSE "ok"

\* try: r = requests.get(match_history_url); matches = ...[:5]
\* except Exception: print("Error fetching match history"); return
\* if not matches: print("No matches found."); return
\* total_kills = total_deaths = total_assists = total_wins = 0
MatchList(resps) ==
    /\ pc = "matchlist"
    /\ \E r \in resps :
         /\ HttpGet([ep |-> "matchlist", host |-> val_domain, puuid |-> puuid])
         /\ IF Fetched(r)
            THEN LET m == Capped(Get(r.body, "history", <<>>)) IN
                 /\ matches' = m
                 /\ IF NoMatches(m)
                    THEN /\ Stdout(<<[msg |-> "No matches found."]>>)
                         /\ pc' = "done"
                    ELSE /\ out' = out
                         /\ pc' = "loop"
            ELSE /\ matches' = matches
                 /\ Stdout(<<[msg |-> "Error fetching match history"]>>)
                 /\ pc' = "done"
         /\ last' = [step |-> "matchlist", kind |-> MatchListKind(r)]
    /\ total_kills' = 0
    /\ total_deaths' = 0
    /\ total_assists' = 0
    /\ total_wins' = 0
    /\ UNCHANGED <<api_key, riot_id, game_name, tag_line, puuid, actual_region,
                   val_domain, idx, kda, win_rate, ref>>

\* -------------------------------------------------------------- MatchDetail
\* Mutant of FindPlayer: falls back to the first participant when the caller
\* is not in the list.
RECURSIVE FindPlayerOrFirst(_, _, _)
FindPlayerOrFirst(players, p, i) ==
    IF i > Len(players) THEN [tag |-> "found", entry |-> players[1]]
    ELSE IF "puuid" \notin DOMAIN players[i] THEN [tag |-> "keyerror"]
    ELSE IF players[i].puuid = p THEN [tag |-> "found", entry |-> players[i]]
    ELSE FindPlayerOrFirst(players, p, i + 1)

\* next((p for p in players_list if p["puuid"] == puuid), None): the first
\* entry of the caller; p["puuid"] raises KeyError at an entry without the
\* field that is reached before the caller's entry.
RECURSIVE FindPlayer(_, _, _)
FindPlayer(players, p, i) ==
    IF i > Len(players) THEN [tag |-> "none"]
    ELSE IF "puuid" \notin DOMAIN players[i] THEN [tag |-> "keyerror"]
    ELSE IF players[i].puuid = p THEN [tag |-> "found", entry |-> players[i]]
    ELSE FindPlayer(players, p, i + 1)

\* stats = player_data.get("stats", {}); stats.get(k, 0)
StatOf(player_data, k) == Get(Get(player_data, "stats", <<>>), k, 0)

\* Mutant of TeamWon: teams_data.get(team_id, {}).get("won", True), which
\* credits a win when the team entry or its flag is missing.
TeamWonByDefault(player_data, match_data) ==
    LET team_id    == Get(player_data, "teamId", None)
        teams_data == Get(match_data, "teams", <<>>)
    IN  /\ Truthy(team_id)
        /\ Get(Get(teams_data, team_id, <<>>), "won", TRUE)

\* if team_id and team_id in teams_data: if teams_data[team_id].get("won")
TeamWon(player_data, match_data) ==
    LET team_id    == Get(player_data, "teamId", None)
        teams_data == Get(match_data, "teams", <<>>)
    IN  /\ Truthy(team_id)
        /\ team_id \in DOMAIN teams_data
        /\ Get(teams_data[team_id], "won", FALSE)

\* History only: the entries of the caller in a fetched body, whatever the
\* order in which the code reads them.
CallerEntries(body, p) ==
    IF "players" \notin DOMAIN body THEN {}
    ELSE {i \in 1..Len(body.players) :
              /\ "puuid" \in DOMAIN body.players[i]
              /\ body.players[i].puuid = p}

FirstCaller(body, p) ==
    body.players[CHOOSE i \in CallerEntries(body, p) :
                     \A j \in CallerEntries(body, p) : i <= j]

\* History only: a stat field of an entry, 0 when the field or the stats
\* object is missing.
FieldOrZero(e, k) ==
    IF "stats" \in DOMAIN e /\ k \in DOMAIN e.stats THEN e.stats[k] ELSE 0

\* History only: the entry names a team, the body lists that team.
HasTeam(body, e) ==
    /\ "teamId" \in DOMAIN e
    /\ e.teamId # ""
    /\ "teams" \in DOMAIN body
    /\ e.teamId \in DOMAIN body.teams

\* History only: what the environment handed to one iteration of the loop.
MatchKind(r, p) ==
    IF r.kind # "ok" THEN r.kind
    ELSE IF "players" \notin DOMAIN r.body \/ r.body.players = <<>>
         THEN "no_players"
    ELSE IF CallerEntries(r.body, p) = {} THEN "caller_absent"
    ELSE LET e == FirstCaller(r.body, p) IN
         IF ~HasTeam(r.body, e) THEN "found_no_team"
         ELSE IF "won" \in DOMAIN r.body.teams[e.teamId]
                 /\ r.body.teams[e.teamId].won
              THEN "found_won" ELSE "found_not_won"

\* History only: the running record of what the fetched bodies contain.
RefAfter(r, p) ==
    IF r.kind # "ok" \/ CallerEntries(r.body, p) = {} THEN ref
    ELSE LET e == FirstCaller(r.body, p) IN
         [found   |-> ref.found + 1,
          kills   |-> ref.kills + FieldOrZero(e, "kills"),
          deaths  |-> ref.deaths + FieldOrZero(e, "deaths"),
          assists |-> ref.assists + FieldOrZero(e, "assists"),
          wins    |-> ref.wins + IF MatchKind(r, p) = "found_won" THEN 1 ELSE 0]

\* One iteration of `for match_item in matches`.
MatchDetail(resps) ==
    /\ pc = "loop"
    /\ idx < Len(matches)
    /\ LET match_item == matches[idx + 1] IN
       IF "matchId" \notin DOMAIN match_item
       THEN \* match_item["matchId"] raises KeyError outside every try
            /\ pc' = "crashed"
            /\ last' = [step |-> "match", kind |-> "no_match_id"]
            /\ UNCHANGED <<idx, totals, calls, out, ref>>
       ELSE \E r \in resps :
            /\ HttpGet([ep |-> "match", host |-> val_domain,
                        id |-> match_item.matchId])
            /\ last' = [step |-> "match", kind |-> MatchKind(r, puuid)]
            /\ IF ~Fetched(r)
               THEN /\ Stdout(<<[msg |-> "Skipping match due to error"]>>)
                    /\ idx' = idx + 1
                    /\ pc' = pc
                    /\ UNCHANGED <<totals, ref>>
               ELSE LET match_data   == r.body
                        players_list == Get(match_data, "players", <<>>)
                        player       == FindPlayer(players_list, puuid, 1)
                    IN
                    /\ out' = out
                    /\ IF players_list = <<>>
                       THEN \* if not players_list: continue
                            /\ pc' = pc
                            /\ idx' = idx + 1
                            /\ ref' = RefAfter(r, puuid)
                            /\ UNCHANGED totals
                       ELSE
                       CASE player.tag = "keyerror" ->
                              /\ pc' = "crashed"
                              /\ UNCHANGED <<idx, totals, ref>>
                         [] player.tag = "none" ->
                              \* if not player_data: continue
                              /\ pc' = pc
                              /\ idx' = idx + 1
                              /\ ref' = RefAfter(r, puuid)
                              /\ UNCHANGED totals
                         [] player.tag = "found" ->
                              LET player_data == player.entry IN
                              /\ pc' = pc
                              /\ idx' = idx + 1
                              /\ ref' = RefAfter(r, puuid)
                              /\ total_kills' =
                                     total_kills + StatOf(player_data, "kills")
                              /\ total_deaths' =
                                     total_deaths + StatOf(player_data, "deaths")
                              /\ total_assists' =
                                     total_assists + StatOf(player_data, "assists")
                              /\ total_wins' =
                                     IF TeamWon(player_data, match_data)
                                     THEN total_wins + 1
                                     ELSE total_wins
    /\ UNCHANGED <<api_key, riot_id, game_name, tag_line, puuid, actual_region,
                   val_domain, matches, kda, win_rate>>

\* ------------------------------------------------------------------- Report
\* Mutant of DeathsSafe: avoids the zero by adding one.
DeathsPlusOne(deaths) == deaths + 1

\* deaths_safe = max(1, total_deaths)
DeathsSafe(deaths) == Max(1, deaths)

\* Mutant of GamesCount: the matches that were aggregated.
GamesAggregated == ref.found

\* games_count = len(matches)
GamesCount == Len(matches)

Sign(x) == IF x > 0 THEN 1 ELSE IF x < 0 THEN -1 ELSE 0

\* n and d (both > 0) scaled by powers of two to N and D with
\* D <= N < 2D: N/D is the float's significand, in [1, 2).
RECURSIVE Normalise(_, _)
Normalise(N, D) ==
    IF N < D THEN Normalise(2 * N, D)
    ELSE IF 2 * D <= N THEN Normalise(N, 2 * D)
    ELSE [N |-> N, D |-> D]

\* The float n / d (n, d > 0), rounded to nearest, ties to even. Its 53-bit
\* mantissa is N * 2^52 / D rounded: `low` is the mantissa modulo 256 (from
\* the remainder of N * 2^44 by D), c / D is its rounding error in units of
\* the last place, and first / D is the significand less 1. The powers of two
\* are taken modulo D, which keeps every product below 2^31 for n and d below
\* 16000.
FloatDiv(n, d) ==
    LET x    == Normalise(n, d)
        p22  == (2048 * 2048) % x.D
        p44  == (p22 * p22) % x.D
        r44  == (x.N * p44) % x.D
        low  == (r44 * 256) \div x.D
        r    == (r44 * 256) % x.D
        up   == 2 * r > x.D \/ (2 * r = x.D /\ low % 2 = 1)
    IN  [low   |-> IF up THEN (low + 1) % 256 ELSE low,
         c     |-> IF up THEN x.D - r ELSE -r,
         D     |-> x.D,
         first |-> x.N - x.D]

\* The sign of float(n / d) - n/d.
DivErr(n, d) == IF n = 0 THEN 0 ELSE Sign(FloatDiv(n, d).c)

\* The sign of float(float(n / d) * 100) - 100n/d: the product of the
\* mantissa by 100 is rounded again, by 7 bits when the mantissa is at least
\* 1.28 (= 128/100) and by 6 bits otherwise.
Times100Err(n, d) ==
    IF n = 0 THEN 0
    ELSE LET x     == FloatDiv(n, d)
             big   == \/ 25 * x.first > 7 * x.D
                      \/ 25 * x.first = 7 * x.D /\ x.c > 0
             unit  == IF big THEN 128 ELSE 64
             prod  == 100 * x.low
             lost  == prod % unit
             odd   == (prod \div unit) % 2 = 1
             delta == IF 2 * lost < unit \/ (2 * lost = unit /\ ~odd)
                      THEN -lost ELSE unit - lost
         IN  Sign(delta * x.D + 100 * x.c)

RECURSIVE Pow10(_)
Pow10(n) == IF n = 0 THEN 1 ELSE 10 * Pow10(n - 1)

\* f"{x:.<digits>f}" of the float x, as the integer count of units of
\* 10^-digits. x is x.num / x.den moved by its rounding error, of sign x.err
\* and far smaller than the distance of a ratio of the model to the next ratio
\* that is not itself: the digits are those of the exact ratio, except when the
\* ratio lies half way between two results, where the float's error decides
\* and, the float being exact, the tie goes to the even digit.
FormatFixed(x, digits) ==
    LET scaled == x.num * Pow10(digits)
        q      == scaled \div x.den
        rem    == scaled % x.den
    IN  IF 2 * rem < x.den THEN q
        ELSE IF 2 * rem > x.den THEN q + 1
        ELSE IF x.err > 0 THEN q + 1
        ELSE IF x.err < 0 THEN q
        ELSE IF q % 2 = 0 THEN q ELSE q + 1

\* The code after the loop: the two ratios and the three printed lines.
Report ==
    /\ pc = "loop"
    /\ idx = Len(matches)
    /\ LET deaths_safe == DeathsSafe(total_deaths)
           games_count == GamesCount
           k == [num |-> total_kills + total_assists, den |-> deaths_safe,
                 err |-> DivErr(total_kills + total_assists, deaths_safe)]
           w == IF games_count # 0
                THEN [num |-> 100 * total_wins, den |-> games_count,
                      err |-> Times100Err(total_wins, games_count)]
                ELSE [num |-> 0, den |-> 1, err |-> 0]
       IN
       /\ kda' = k
       /\ win_rate' = w
       /\ Stdout(<<[msg |-> "Stats for", riot_id |-> riot_id],
                  [msg |-> "KDA:", hundredths |-> FormatFixed(k, 2)],
                  [msg |-> "Win Rate:", tenths |-> FormatFixed(w, 1)]>>)
    /\ pc' = "done"
    /\ last' = [step |-> "report", kind |-> "ok"]
    /\ UNCHANGED <<api_key, riot_id, game_name, tag_line, puuid, actual_region,
                   val_domain, matches, idx, totals, calls, ref>>

\* -------------------------------------------------------------- environment
\* The process environment: without the variable, with it empty, with a key.
Envs ==
    {[HOME |-> "/root"],
     [HOME |-> "/root", RIOT_API_KEY |-> ""],
     [HOME |-> "/root", RIOT_API_KEY |-> "RGAPI-key"]}

\* Console lines: every string of at most MaxIdLen characters over a letter,
\* the separator and a blank.
Chars == {"a", "#", " "}

Lines == UNION {[1..n -> Chars] : n \in 0..MaxIdLen}

\* A few console lines: a well-formed id, the same with blanks around it, no
\* separator, two separators.
SampleLines ==
    {<<"a", "#", "b">>, <<" ", "a", "#", "b", " ">>, <<"a", "b">>,
     <<"a", "#", "b", "#", "c">>}

\* An exchange that raised: requests.get itself, raise_for_status(), .json().
Failures == {[kind |-> "transport"], [kind |-> "status"], [kind |-> "bad_json"]}

Ok(body) == [kind |-> "ok", body |-> body]

AccountResps(ps) ==
    Failures \cup {Ok([gameName |-> "a"])}
             \cup {Ok([puuid |-> p, gameName |-> "a"]) : p \in ps}

ShardResps(codes) ==
    Failures \cup {Ok([game |-> "val"])}
             \cup {Ok([game |-> "val", activeShard |-> c]) : c \in codes}

\* The six codes of region_map and one code outside it.
AllShards == DOMAIN RegionMap \cup {"sea"}

SampleShards == {"na", "eu", "sea"}

\* The upstream history, newest first: a history of n matches is the first n
\* entries of the longest one.
Upstream(n) == [i \in 1..n |-> [matchId |-> MaxHist + 1 - i]]

Histories == {Upstream(n) : n \in 0..MaxHist}

\* Histories with one entry that carries no matchId.
BrokenHistories ==
    UNION {{[Upstream(n) EXCEPT ![k] = [gameStartTimeMillis |-> 0]] :
                k \in 1..n} : n \in 1..MaxHist}

MatchListResps(hs) ==
    Failures \cup {Ok([puuid |-> "p1"])}
             \cup {Ok([puuid |-> "p1", history |-> h]) : h \in hs}

StatKeys == {"kills", "deaths", "assists"}

\* Stat objects with the three fields.
FullStats ==
    {s \in [StatKeys -> 0..MaxStatSum] :
         s.kills + s.deaths + s.assists <= MaxStatSum}

\* Stat objects with at most one of the three fields.
PartialStats ==
    {[score |-> 0]} \cup {[f \in {k} |-> MaxStatSum] : k \in StatKeys}

SomeStats == [kills |-> MaxStatSum, deaths |-> 0, assists |-> 0]

RedWon == [Red |-> [won |-> TRUE], Blue |-> [won |-> FALSE]]

BlueWon == [Red |-> [won |-> FALSE], Blue |-> [won |-> TRUE]]

Player(p, s, t) == [puuid |-> p, stats |-> s, teamId |-> t]

\* A participant entry without the puuid field.
Anonymous == [stats |-> SomeStats, teamId |-> "Red"]

\* Match bodies in which the entry of p is reached.
FoundBodies(p, o) ==
    {[players |-> <<Player(p, s, "Red")>>, teams |-> t] :
         s \in FullStats \cup PartialStats, t \in {RedWon, BlueWon}}
    \cup
    {[players |-> <<[puuid |-> p, teamId |-> "Red"]>>, teams |-> RedWon],
     [players |-> <<[puuid |-> p, stats |-> SomeStats]>>, teams |-> RedWon],
     [players |-> <<Player(p, SomeStats, "")>>, teams |-> RedWon],
     [players |-> <<Player(p, SomeStats, "Red")>>],
     [players |-> <<Player(p, SomeStats, "Red")>>,
      teams |-> [Blue |-> [won |-> TRUE]]],
     [players |-> <<Player(p, SomeStats, "Red")>>,
      teams |-> [Red |-> [roundsWon |-> 0], Blue |-> [won |-> TRUE]]],
     [players |-> <<Player(o, SomeStats, "Blue"), Player(p, SomeStats, "Red")>>,
      teams |-> RedWon],
     [players |-> <<Player(p, SomeStats, "Red"), Anonymous>>, teams |-> RedWon],
     [players |-> <<Player(p, SomeStats, "Red"), Player(p, [score |-> 0], "Blue")>>,
      teams |-> BlueWon]}

\* Match bodies without participants, or without the entry of p.
SkippedBodies(o) ==
    {[teams |-> RedWon],
     [players |-> <<>>, teams |-> RedWon],
     [players |-> <<Player(o, SomeStats, "Red")>>, teams |-> RedWon]}

\* Match bodies in which an entry without puuid is read.
AnonymousBodies(p, o) ==
    {[players |-> <<Anonymous>>, teams |-> RedWon],
     [players |-> <<Player(o, SomeStats, "Red"), Anonymous>>, teams |-> RedWon],
     [players |-> <<Anonymous, Player(p, SomeStats, "Red")>>, teams |-> RedWon]}

DetailResps(p, o) ==
    Failures \cup {Ok(b) : b \in FoundBodies(p, o) \cup SkippedBodies(o)
                                 \cup AnonymousBodies(p, o)}

SampleDetails ==
    {[kind |-> "status"],
     Ok([players |-> <<Player("p1", SomeStats, "Red")>>, teams |-> RedWon]),
     Ok([players |-> <<Player("p2", SomeStats, "Red")>>, teams |-> BlueWon]),
     Ok([players |-> <<Anonymous>>, teams |-> RedWon])}

MainAccounts == AccountResps({"p1"})
MainShardResps == ShardResps(SampleShards)
MainMatchLists == MatchListResps(Histories)
MainDetails == DetailResps("p1", "p2")

FrontAccounts == AccountResps({"p1", "p2"})
FrontShardResps == ShardResps(AllShards)
FrontMatchLists == MatchListResps(Histories \cup BrokenHistories)

\* ----------------------------------------------------------- specifications
\* Every match-detail response, a sample of what comes before.
Next ==
    \/ Configuration(Envs)
    \/ Identity(SampleLines)
    \/ AccountLookup(MainAccounts)
    \/ ShardLookup(MainShardResps)
    \/ MatchList(MainMatchLists)
    \/ MatchDetail(MainDetails)
    \/ Report

Spec == Init /\ [][Next]_vars

\* Every console line, account, shard and history, a sample of match details.
NextFront ==
    \/ Configuration(Envs)
    \/ Identity(Lines)
    \/ AccountLookup(FrontAccounts)
    \/ ShardLookup(FrontShardResps)
    \/ MatchList(FrontMatchLists)
    \/ MatchDetail(SampleDetails)
    \/ Report

SpecFront == Init /\ [][NextFront]_vars

\* ------------------------------------------------------------- observations
Printed(m) == \E i \in 1..Len(out) : out[i].msg = m

LastPrinted == out[Len(out)].msg

Reported == Printed("KDA:")

\* The printed KDA in hundredths and win rate in tenths of a percent.
PrintedKda == out[CHOOSE i \in 1..Len(out) : out[i].msg = "KDA:"].hundredths

PrintedWinRate == out[CHOOSE i \in 1..Len(out) : out[i].msg = "Win Rate:"].tenths

TerminalMsgs ==
    {"Missing RIOT_API_KEY in .env file.",
     "Invalid Riot ID format. Must be GameName#TagLine.",
     "Error fetching PUUID", "Error fetching active shard",
     "Error fetching match history", "No matches found."}

TerminalPrints == Cardinality({i \in 1..Len(out) : out[i].msg \in TerminalMsgs})

CallsTo(ep) == Cardinality({i \in 1..Len(calls) : calls[i].ep = ep})

IsDetailCall(c) == c.ep = "match"

DetailCalls == SelectSeq(calls, IsDetailCall)

Hashes(s) == Cardinality({i \in 1..Len(s) : s[i] = "#"})

IdentityRan == last.step \notin {"start", "config"}

Abs(n) == IF n < 0 THEN -n ELSE n

FoundKinds == {"found_won", "found_not_won", "found_no_team"}

\* -------------------------------------------------------------------- claims
\* C1: a stripped line with no '#' or more than one '#' prints the format
\* error and ends the run with no HTTP call; a line with exactly one '#' goes
\* on to the account lookup, called with the two parts of the line.
C1_FormatErrorMakesNoCall ==
    IdentityRan =>
        IF Hashes(riot_id) # 1
        THEN /\ pc = "done"
             /\ calls = <<>>
             /\ out = <<[msg |-> "Invalid Riot ID format. Must be GameName#TagLine."]>>
        ELSE /\ ~Printed("Invalid Riot ID format. Must be GameName#TagLine.")
             /\ \/ pc = "account" /\ calls = <<>>
                \/ /\ Len(calls) >= 1
                   /\ calls[1].ep = "account"
                   /\ calls[1].name \o <<"#">> \o calls[1].tag = riot_id

C1_Witness ==
    /\ pc = "done"
    /\ Hashes(riot_id) = 2
    /\ Printed("Invalid Riot ID format. Must be GameName#TagLine.")

\* C2: every terminal condition prints its one message and ends the run
\* there: a missing credential before the prompt and before any call, a
\* failed account lookup (a body without puuid exactly like a transport
\* failure) after one call, a failed shard lookup after two, a failed
\* match-list lookup after three, an empty capped list with "No matches
\* found." after three calls and no match-detail call; no report follows.
C2_TerminalConditionEndsRun ==
    /\ (last.step = "config" /\ last.kind = "no_key") =>
           /\ pc = "done"
           /\ out = <<[msg |-> "Missing RIOT_API_KEY in .env file."]>>
           /\ calls = <<>>
           /\ riot_id = <<>>
    /\ (last.step = "account" /\ last.kind # "ok") =>
           /\ pc = "done"
           /\ out = <<[msg |-> "Error fetching PUUID"]>>
           /\ puuid = None
           /\ Len(calls) = 1
    /\ (last.step = "shard" /\ last.kind # "ok") =>
           /\ pc = "done"
           /\ LastPrinted = "Error fetching active shard"
           /\ actual_region = None
           /\ Len(calls) = 2
    /\ (last.step = "matchlist" /\ last.kind \in {"transport", "status", "bad_json"}) =>
           /\ pc = "done"
           /\ LastPrinted = "Error fetching match history"
           /\ Len(calls) = 3
    /\ (last.step = "matchlist" /\ last.kind \in {"no_field", "empty"}) =>
           /\ pc = "done"
           /\ matches = <<>>
           /\ LastPrinted = "No matches found."
           /\ Len(calls) = 3
           /\ CallsTo("match") = 0
    /\ TerminalPrints >= 1 =>
           /\ pc = "done"
           /\ TerminalPrints = 1
           /\ LastPrinted \in TerminalMsgs
           /\ ~Reported

C2_Witness ==
    /\ last = [step |-> "matchlist", kind |-> "empty"]
    /\ pc = "done"
    /\ LastPrinted = "No matches found."

\* C3: once the capped match list is non-empty no per-match problem aborts
\* the run: the run never ends on an uncaught exception, and a run that has
\* ended has attempted every selected match and printed the final report.
C3_NoMatchProblemAborts ==
    /\ pc # "crashed"
    /\ (pc = "done" /\ matches # <<>>) =>
           /\ Reported
           /\ CallsTo("match") = Len(matches)

\* C4: a partition code outside the six of the table prints the warning
\* naming the code, uses the default host and does not end the run; a code
\* of the table prints no warning and uses the table's host.
C4_UnknownShardWarns ==
    (last.step = "shard" /\ last.kind = "ok") =>
        IF actual_region \notin DOMAIN RegionMap
        THEN /\ Printed("Unknown activeShard, defaulting to americas.")
             /\ val_domain = Americas
             /\ pc = "matchlist"
        ELSE /\ ~Printed("Unknown activeShard, defaulting to americas.")
             /\ val_domain = RegionMap[actual_region]
             /\ pc = "matchlist"

\* C5: the reported win rate is 100 * wins / A with A the length of the
\* capped match list (1..5), whatever the number of matches aggregated; 2
\* wins of 5 attempted print 40.0.
C5_WinRateOverAttempted ==
    Reported =>
        LET A == Len(matches) IN
        /\ A \in 1..MatchCap
        /\ win_rate.den * 100 * total_wins = win_rate.num * A
        /\ win_rate.den # 0
        /\ 2 * Abs(PrintedWinRate * A - 1000 * total_wins) <= A
        /\ (total_wins = 2 /\ A = 5) => PrintedWinRate = 400

C5_Witness ==
    /\ Reported
    /\ total_wins = 2
    /\ Len(matches) = 5
    /\ ref.found = 3
    /\ PrintedWinRate = 400

\* C6: the totals are the sums over the aggregated matches, a missing field
\* counting 0, and the reported KDA is (kills + assists) / max(1, deaths):
\* the divisor is never 0, and with no deaths the KDA is kills + assists (3
\* kills and 2 assists print 5.00).
C6_KdaFloorsDeathsAtOne ==
    /\ total_kills = ref.kills
    /\ total_deaths = ref.deaths
    /\ total_assists = ref.assists
    /\ Reported =>
           LET d == IF total_deaths = 0 THEN 1 ELSE total_deaths
               n == total_kills + total_assists
           IN
           /\ kda.den > 0
           /\ kda.num * d = n * kda.den
           /\ 2 * Abs(PrintedKda * d - 100 * n) <= d
           /\ total_deaths = 0 => PrintedKda = 100 * n
           /\ (total_kills = 3 /\ total_assists = 2 /\ total_deaths = 0) =>
                  PrintedKda = 500

C6_Witness ==
    /\ Reported
    /\ total_kills = 3
    /\ total_assists = 2
    /\ total_deaths = 0
    /\ PrintedKda = 500

\* C7: a fetched match whose participants do not include the caller leaves
\* kills, deaths, assists and wins and the length of the match list as they
\* were; a total changes only in a step that found the caller's entry.
C7_AbsentCallerChangesNothing ==
    [][/\ (pc = "loop" /\ last'.step = "match" /\ last'.kind = "caller_absent") =>
              /\ totals' = totals
              /\ Len(matches') = Len(matches)
       /\ (pc = "loop" /\ totals' # totals) =>
              (last'.step = "match" /\ last'.kind \in FoundKinds)]_vars

C7_Witness ==
    /\ pc = "loop"
    /\ last = [step |-> "match", kind |-> "caller_absent"]
    /\ idx = 2
    /\ total_kills = 1
    /\ total_wins = 1

\* C8: the calls go account, shard, match list, then one match-detail call
\* per entry of the capped list in list order, at most five, none repeated;
\* a run that has ended with a non-empty list has called every entry once.
C8_LinearOrderOneCallPerMatch ==
    /\ CallsTo("account") <= 1
    /\ CallsTo("active-shard") <= 1
    /\ CallsTo("matchlist") <= 1
    /\ \A i \in 1..Len(calls) :
           calls[i].ep = IF i = 1 THEN "account"
                         ELSE IF i = 2 THEN "active-shard"
                         ELSE IF i = 3 THEN "matchlist" ELSE "match"
    /\ Len(DetailCalls) <= MatchCap
    /\ Len(DetailCalls) <= Len(matches)
    /\ \A i \in 1..Len(DetailCalls) : DetailCalls[i].id = matches[i].matchId
    /\ (pc \in {"done", "crashed"} /\ matches # <<>>) =>
           Len(DetailCalls) = Len(matches)

\* C9 as stated: a run that reaches the report has made 2 + N GET calls.
C9_TwoPlusN ==
    Reported => (Len(matches) \in 1..MatchCap /\ Len(calls) = 2 + Len(matches))

\* C9 amended: a run that reaches the report has made 3 + N GET calls (the
\* account, shard and match-list lookups and one call per match), N in 1..5
\* the length of the capped match list.
C9_ThreePlusN ==
    Reported => (Len(matches) \in 1..MatchCap /\ Len(calls) = 3 + Len(matches))

C9_Witness ==
    /\ Reported
    /\ Len(matches) = MatchCap
    /\ Len(calls) = 3 + MatchCap

\* C10: always 0 <= wins <= matches aggregated <= matches processed <= length
\* of the capped list <= 5; wins grow by at most 1 per match and only in a
\* step that also added the caller's K/D/A; a match without team id or team
\* entry adds its K/D/A and no win; the printed win rate is within 0..100.
C10_WinsBoundedByAggregated ==
    /\ [](/\ 0 <= total_wins
          /\ total_wins <= ref.found
          /\ ref.found <= idx
          /\ idx <= Len(matches)
          /\ Len(matches) <= MatchCap
          /\ total_wins = ref.wins
          /\ Reported => PrintedWinRate \in 0..1000)
    /\ [][/\ total_wins' \in {total_wins, total_wins + 1}
          /\ (pc = "loop" /\ total_wins' = total_wins + 1) =>
                 /\ last'.kind = "found_won"
                 /\ ref'.found = ref.found + 1
          /\ (pc = "loop" /\ last'.step = "match" /\ pc' = "loop"
                /\ last'.kind = "found_no_team") =>
                 /\ total_wins' = total_wins
                 /\ ref'.found = ref.found + 1
                 /\ total_kills' = ref'.kills]_vars

C10_Witness ==
    /\ pc = "loop"
    /\ last = [step |-> "match", kind |-> "found_no_team"]
    /\ total_wins = 1
    /\ total_kills = 2
    /\ ref.found = 2
    /\ idx = 3

====
